---- MODULE Spec2Model ----
(***************************************************************************)
(* The request pipeline of Application (Application.request) as a state    *)
(* machine: requests are issued, travel over the wire, and their responses *)
(* complete in any order.  The session's CSRF token and the retained       *)
(* request error are the shared state.                                     *)
(***************************************************************************)
EXTENDS Integers, Sequences, FiniteSets, TLC

\* ------------------------------------------------------------------ bounds
\* Number of requests issued in one behaviour of Spec.
MaxRequests == 2

\* ------------------------------------------------------- JavaScript values
\* A property the caller left out of the options object.
Undefined == "undefined"

\* The JavaScript value null where a text is expected (line 219).
JSNull == "js:null"

\* JavaScript truthiness of the option values and texts used here.
Truthy(v) == v \notin {Undefined, JSNull, "false", ""}

\* ------------------------------------------------------------------ inputs
BootTokens == {"boot"}
FreshTokens == {"fresh1", "fresh2"}

Methods == {"GET", "POST", "PATCH", "DELETE", Undefined}
BackgroundValues == {Undefined, "true", "false"}
ConfigValues == {Undefined, "callerConfig"}
ErrorHandlerValues == {Undefined, "returns", "throws"}
ExtractValues == {Undefined, "identity", "constant"}

\* The options objects a caller passes to Application.request.
AllOptions ==
  [method : Methods, background : BackgroundValues, config : ConfigValues,
   errorHandler : ErrorHandlerValues, extract : ExtractValues]

\* The options of the store's own calls: a method and nothing else.
PlainOptions ==
  [method : {"GET", "PATCH"}, background : {Undefined}, config : {Undefined},
   errorHandler : {Undefined}, extract : {Undefined}]

BodyData == "{\"data\":1}"
BodyErrors == "{\"errors\":[{\"detail\":\"a\"},{\"detail\":\"b\"}]}"
BodyHtml == "<html>"
BodyNull == "null"
Bodies == {"", BodyHtml, BodyNull, BodyData, BodyErrors}

Statuses == {0, 199, 200, 204, 299, 300, 401, 403, 404, 410, 422, 429, 500}

\* The value of the response's X-CSRF-Token header; JSNull when absent.
CsrfHeaders == {JSNull, ""} \cup FreshTokens

AllResponses ==
  [status : Statuses, responseText : Bodies, csrfHeader : CsrfHeaders]

PlainResponses ==
  [status : {200, 404, 422}, responseText : {"", BodyHtml, BodyErrors},
   csrfHeader : {JSNull} \cup FreshTokens]

\* ------------------------------------------------------------ JSON values
\* Parsed JSON values: null, or an object that may carry an errors array of
\* field-level details.
NullValue == [type |-> "null", hasErrors |-> FALSE, errors |-> <<>>]
ObjectValue(hasErrors, errors) ==
  [type |-> "object", hasErrors |-> hasErrors, errors |-> errors]

\* JSON.parse(text): the text is first converted to a string, so the value
\* null is read as the text "null"; ok is FALSE where JSON.parse throws.
JSONparse(text) ==
  CASE text \in {JSNull, BodyNull} -> [ok |-> TRUE, value |-> NullValue]
    [] text = BodyData -> [ok |-> TRUE, value |-> ObjectValue(FALSE, <<>>)]
    [] text = BodyErrors ->
         [ok |-> TRUE, value |-> ObjectValue(TRUE, <<"a", "b">>)]
    [] OTHER -> [ok |-> FALSE, value |-> NullValue]

\* ------------------------------------------------------------ RequestError
NoAlert == [type |-> "none", children |-> <<>>]

\* new RequestError(status, responseText, options, xhr): response is the
\* parsed responseText, or null when it does not parse.
RequestError(status, responseText, options, xhr) ==
  [name |-> "RequestError", status |-> status, responseText |-> responseText,
   options |-> options, xhr |-> xhr,
   response |-> JSONparse(responseText).value, alert |-> NoAlert]

TypeError == [name |-> "TypeError"]
NoError == [name |-> "null"]

\* ------------------------------------------------- building the options
\* A step of the options' config callback chain: a header the callback sets
\* on the xhr.  The CSRF callback reads the session when it is invoked.
SessionToken == "this.session.csrfToken"
CallerHeader == [header |-> "X-Caller", value |-> "caller"]
CsrfSetter == [header |-> "X-CSRF-Token", value |-> SessionToken]
OverrideSetter(method) == [header |-> "X-HTTP-Method-Override", value |-> method]

\* extend(object, 'config', callback): the original config, when there is
\* one, still runs, and the callback runs after it.
extend(config, callback) == Append(config, callback)

\* Object.assign({}, originalOptions), line 181; the caller's config becomes
\* the first callback of the chain.
CopyOptions(originalOptions) ==
  [method |-> originalOptions.method,
   background |-> originalOptions.background,
   config |-> IF originalOptions.config = Undefined THEN <<>>
              ELSE <<CallerHeader>>,
   errorHandler |-> originalOptions.errorHandler,
   extract |-> originalOptions.extract]

\* options.background = options.background || true, line 187.
DefaultBackground(options) ==
  [options EXCEPT !.background =
     IF Truthy(options.background) THEN options.background ELSE "true"]

\* Assigning the CSRF callback only where the caller gave no config.
AuthenticateConfigUnlessGiven(options) ==
  [options EXCEPT !.config =
     IF options.config = <<>> THEN <<CsrfSetter>> ELSE options.config]

\* extend(options, 'config', ... setRequestHeader('X-CSRF-Token', ...)),
\* line 189.
AuthenticateConfig(options) ==
  [options EXCEPT !.config = extend(options.config, CsrfSetter)]

\* The override callback reading options.method after it was set to POST.
OverrideMethodLate(options) ==
  IF options.method # "GET" /\ options.method # "POST"
    THEN [options EXCEPT
            !.config = extend(options.config, OverrideSetter("POST")),
            !.method = "POST"]
    ELSE options

\* Lines 194-198: a method other than GET and POST is sent as POST with the
\* intended method in the X-HTTP-Method-Override header.
OverrideMethod(options) ==
  IF options.method # "GET" /\ options.method # "POST"
    THEN [options EXCEPT
            !.config = extend(options.config, OverrideSetter(options.method)),
            !.method = "POST"]
    ELSE options

\* options.errorHandler = options.errorHandler || (error => { throw error }),
\* lines 205-207: the default handler is one that throws.
DefaultErrorHandler(options) ==
  [options EXCEPT !.errorHandler =
     IF Truthy(options.errorHandler) THEN options.errorHandler ELSE "throws"]

\* The options handed to m.request, lines 181-207; options.extract keeps the
\* caller's extract as "original" (line 212).
RequestOptions(originalOptions) ==
  DefaultErrorHandler(OverrideMethod(AuthenticateConfig(
    DefaultBackground(CopyOptions(originalOptions)))))

\* ------------------------------------------------------------ the transport
RECURSIVE RunConfig(_, _)
\* m.request invokes options.config(xhr) when it sends: the setRequestHeader
\* calls made, in order, with the session token read at that moment.
RunConfig(config, token) ==
  IF config = <<>> THEN <<>>
  ELSE <<[header |-> Head(config).header,
          value |-> IF Head(config).value = SessionToken THEN token
                    ELSE Head(config).value]>>
       \o RunConfig(Tail(config), token)

\* What m.request(options) puts on the wire, line 249.
Send(options, token) ==
  [method |-> options.method, background |-> options.background,
   headers |-> RunConfig(options.config, token)]

\* The values of the setRequestHeader calls made for a header.
HeaderValues(sent, header) ==
  SelectSeq(sent.headers, LAMBDA h : h.header = header)

\* ------------------------------------------------ handling the response
InRange(status) == status >= 200 /\ status <= 299

\* The caller's extract option applied to xhr.responseText (line 217).
ApplyOriginal(original, responseText) ==
  IF original = "identity" THEN responseText ELSE BodyData

\* Lines 216-220: the text options.extract works on.
ResponseText(original, xhr) ==
  IF Truthy(original) THEN ApplyOriginal(original, xhr.responseText)
  ELSE IF Truthy(xhr.responseText) THEN xhr.responseText ELSE JSNull

\* Taking the header's token only while the session has none.
RotateTokenIfUnset(token, xhr) ==
  IF Truthy(token) THEN token ELSE xhr.csrfHeader

\* Lines 228-231: the session token after the response's X-CSRF-Token header
\* has been looked at.
RotateToken(token, xhr) ==
  IF Truthy(xhr.csrfHeader) THEN xhr.csrfHeader ELSE token

\* Returning null where JSON.parse throws.
ExtractSwallow(options, xhr, id, token) ==
  LET responseText == ResponseText(options.extract, xhr)
      parsed == JSONparse(responseText)
  IN  IF ~InRange(xhr.status)
        THEN [threw |-> TRUE, value |-> NullValue, token |-> token,
              error |-> RequestError(xhr.status, responseText, options, id)]
      ELSE [threw |-> FALSE, value |-> parsed.value,
            token |-> RotateToken(token, xhr), error |-> NoError]

\* Checking only the upper end of the status range.
ExtractNoLowerBound(options, xhr, id, token) ==
  LET responseText == ResponseText(options.extract, xhr)
      parsed == JSONparse(responseText)
  IN  IF xhr.status > 299
        THEN [threw |-> TRUE, value |-> NullValue, token |-> token,
              error |-> RequestError(xhr.status, responseText, options, id)]
      ELSE IF parsed.ok
        THEN [threw |-> FALSE, value |-> parsed.value,
              token |-> RotateToken(token, xhr), error |-> NoError]
      ELSE [threw |-> TRUE, value |-> NullValue,
            token |-> RotateToken(token, xhr),
            error |-> RequestError(500, responseText, options, id)]

\* Rotating the token only after JSON.parse has succeeded.
ExtractRotateLate(options, xhr, id, token) ==
  LET responseText == ResponseText(options.extract, xhr)
      parsed == JSONparse(responseText)
  IN  IF ~InRange(xhr.status)
        THEN [threw |-> TRUE, value |-> NullValue, token |-> token,
              error |-> RequestError(xhr.status, responseText, options, id)]
      ELSE IF parsed.ok
        THEN [threw |-> FALSE, value |-> parsed.value,
              token |-> RotateToken(token, xhr), error |-> NoError]
      ELSE [threw |-> TRUE, value |-> NullValue, token |-> token,
            error |-> RequestError(500, responseText, options, id)]

\* options.extract, lines 213-238.  threw says whether it throws; error is
\* what it throws, value what it returns, token the session token it leaves.
Extract(options, xhr, id, token) ==
  LET responseText == ResponseText(options.extract, xhr)
      parsed == JSONparse(responseText)
  IN  IF ~InRange(xhr.status)
        THEN [threw |-> TRUE, value |-> NullValue, token |-> token,
              error |-> RequestError(xhr.status, responseText, options, id)]
      ELSE IF parsed.ok
        THEN [threw |-> FALSE, value |-> parsed.value,
              token |-> RotateToken(token, xhr), error |-> NoError]
      ELSE [threw |-> TRUE, value |-> NullValue,
            token |-> RotateToken(token, xhr),
            error |-> RequestError(500, responseText, options, id)]

RECURSIVE Flatten(_)
\* .reduce((a, b) => a.concat(b), []), line 259.
Flatten(pairs) ==
  IF pairs = <<>> THEN <<>> ELSE Head(pairs) \o Flatten(Tail(pairs))

\* .slice(0, -1), line 260.
DropLast(list) ==
  IF list = <<>> THEN <<>> ELSE SubSeq(list, 1, Len(list) - 1)

PermissionDenied == "core.lib.error.permission_denied_message"
NotFound == "core.lib.error.not_found_message"
RateLimited == "core.lib.error.rate_limit_exceeded_message"
Generic == "core.lib.error.generic_message"

\* The switch on error.status, lines 255-279.  For 422 the code reads
\* error.response.errors: with a null response or no errors array that read
\* throws a TypeError.
Children(error) ==
  CASE error.status = 422 ->
         IF error.response.type = "object" /\ error.response.hasErrors
           THEN [threw |-> FALSE,
                 children |-> DropLast(Flatten(
                   [i \in DOMAIN error.response.errors |->
                      <<error.response.errors[i], "br">>]))]
           ELSE [threw |-> TRUE, children |-> <<>>]
    [] error.status \in {401, 403} ->
         [threw |-> FALSE, children |-> <<PermissionDenied>>]
    [] error.status \in {404, 410} ->
         [threw |-> FALSE, children |-> <<NotFound>>]
    [] error.status = 429 -> [threw |-> FALSE, children |-> <<RateLimited>>]
    [] OTHER -> [threw |-> FALSE, children |-> <<Generic>>]

\* Alert.component({type: 'error', children}), lines 281-284.
AlertComponent(children) == [type |-> "error", children |-> children]

\* The rejection handler, lines 250-294.  requestError is what it leaves in
\* this.requestError (the error object itself, so it shows the alert attached
\* later), reason what the returned promise rejects with, handlerCalls and
\* handlerArg the calls of options.errorHandler.
OnRejected(options, error) ==
  LET c == Children(error)
      classified == [error EXCEPT !.alert = AlertComponent(c.children)]
  IN  IF c.threw
        THEN [requestError |-> error, reason |-> TypeError,
              handlerCalls |-> 0, handlerArg |-> NoError]
        ELSE [requestError |-> classified, reason |-> classified,
              handlerCalls |-> 1, handlerArg |-> classified]

\* -------------------------------------------------------------- the state
\* app.session.csrfToken
VARIABLE csrfToken
\* this.requestError
VARIABLE requestError
\* the calls of Application.request, in the order made
VARIABLE requests
\* the calls whose response has been handled, in the order handled
VARIABLE completed


\* The steps of Application.boot that have run, in the order they ran.
VARIABLE bootLog
\* this.data, the boot payload
VARIABLE data
\* app.session.user
VARIABLE sessionUser
\* the DiscussionPage components, in the order they were initialised
VARIABLE pages
\* the lastReadPostNumber attribute of the Discussion in the store
VARIABLE lastReadPostNumber
\* the lastReadPostNumber the client last took from a server document
VARIABLE observed
\* the calls of discussion.save, in the order made
VARIABLE saves
\* the latest call of positionChanged, while nothing else has happened since
VARIABLE lastCall
\* a PostStreamState
VARIABLE stream

pipelineVars == <<csrfToken, requestError, requests, completed>>

appVars ==
  <<bootLog, data, sessionUser, pages, lastReadPostNumber, observed, saves,
    lastCall, stream>>

vars == <<pipelineVars, appVars>>

\* An attribute that a resource does not have.
Absent == -1

\* x || 0 and x ?? 0 for a number that may be missing.
OrZero(x) == IF x = Absent THEN 0 ELSE x

\* Mounting the routes before the session is made.
BootSequenceMountFirst ==
  <<"data", "store", "forum", "mount", "session", "locale", "plugins",
    "setupRoutes", "booting">>

\* The statements of Application.boot, lines 90-106, in program order.
BootSequence ==
  <<"data", "store", "forum", "session", "locale", "plugins", "setupRoutes",
    "mount", "booting">>

NoDocument == [type |-> "null"]
NoData == [apiDocument |-> NoDocument, user |-> JSNull, csrfToken |-> Undefined]
NoCall == [page |-> 0, startNumber |-> 0, endNumber |-> 0, times |-> 0]
NoStream == [state |-> "none"]

\* The application once boot has returned, with no page routed yet and no
\* preloaded document.
Booted ==
  /\ bootLog = BootSequence
  /\ data = NoData
  /\ sessionUser = JSNull
  /\ pages = <<>>
  /\ lastReadPostNumber = Absent
  /\ observed = Absent
  /\ saves = <<>>
  /\ lastCall = NoCall
  /\ stream = NoStream

Pending == [state |-> "pending"]
Resolved(value) == [state |-> "resolved", value |-> value]
Rejected(reason) == [state |-> "rejected", reason |-> reason]

NoResponse == [status |-> -1, responseText |-> "", csrfHeader |-> JSNull]

\* boot(payload), lines 96-99: the session takes payload.session.csrfToken;
\* requestError starts null (line 79).
Init ==
  /\ csrfToken \in BootTokens
  /\ requestError = NoError
  /\ requests = <<>>
  /\ completed = <<>>
  /\ Booted

\* Dismissing the retained error when a request succeeds.
RetainedErrorDismissed(current, threw, error) ==
  IF threw THEN error ELSE NoError

\* this.requestError = error (line 251) runs only in the rejection handler; a
\* response that resolves leaves this.requestError alone.
RetainedError(current, threw, error) ==
  IF threw THEN error ELSE current

\* Application.request(originalOptions) up to the send of m.request.
request(originalOptions) ==
  LET options == RequestOptions(originalOptions)
  IN  /\ requests' = Append(requests,
           [originalOptions |-> originalOptions,
            options |-> options,
            sent |-> Send(options, csrfToken),
            issuedAfter |-> Len(completed),
            xhr |-> NoResponse,
            promise |-> Pending,
            handlerCalls |-> 0,
            handlerArg |-> NoError])
      /\ UNCHANGED <<csrfToken, requestError, completed>>

\* The response of call id arrives: options.extract runs, then the promise
\* resolves with its value (res => res) or the rejection handler runs.
respond(id, xhr) ==
  LET r == requests[id]
      e == Extract(r.options, xhr, id, csrfToken)
      h == OnRejected(r.options, e.error)
  IN  /\ r.promise = Pending
      /\ csrfToken' = e.token
      /\ completed' = Append(completed, id)
      /\ requestError' = RetainedError(requestError, e.threw, h.requestError)
      /\ IF e.threw
           THEN requests' = [requests EXCEPT ![id] =
                  [r EXCEPT !.xhr = xhr,
                            !.promise = Rejected(h.reason),
                            !.handlerCalls = h.handlerCalls,
                            !.handlerArg = h.handlerArg]]
           ELSE requests' = [requests EXCEPT ![id] =
                  [r EXCEPT !.xhr = xhr, !.promise = Resolved(e.value)]]

\* Calls made by the store and the pages, several in flight at once.
Request ==
  /\ Len(requests) < MaxRequests
  /\ \E o \in PlainOptions : request(o)
  /\ UNCHANGED appVars

Respond ==
  /\ \E id \in DOMAIN requests : \E xhr \in PlainResponses : respond(id, xhr)
  /\ UNCHANGED appVars

Next == Request \/ Respond

Spec == Init /\ [][Next]_vars

\* One call with any options, answered by any response, made when the session
\* holds the boot token or one a response has rotated in.
InitOne ==
  /\ csrfToken \in BootTokens \cup FreshTokens
  /\ requestError = NoError
  /\ requests = <<>>
  /\ completed = <<>>
  /\ Booted

RequestAny ==
  /\ requests = <<>>
  /\ \E o \in AllOptions : request(o)
  /\ UNCHANGED appVars

RespondAny ==
  /\ \E id \in DOMAIN requests : \E xhr \in AllResponses : respond(id, xhr)
  /\ UNCHANGED appVars

NextOne == RequestAny \/ RespondAny

SpecOne == InitOne /\ [][NextOne]_vars

\* ================================================================ claims
Issued == DOMAIN requests
Answered == {i \in Issued : requests[i].promise # Pending}

CsrfHeaderName == "X-CSRF-Token"
OverrideHeaderName == "X-HTTP-Method-Override"

\* C1: a request whose method is neither GET nor POST goes over the wire as
\* POST with one X-HTTP-Method-Override header holding the original method;
\* a GET or POST request goes with its own method and no override header.
MethodOverride ==
  \A i \in Issued :
    LET o == requests[i].originalOptions
        sent == requests[i].sent
    IN  IF o.method \notin {"GET", "POST"}
          THEN /\ sent.method = "POST"
               /\ HeaderValues(sent, OverrideHeaderName) =
                    <<[header |-> OverrideHeaderName, value |-> o.method]>>
          ELSE /\ sent.method = o.method
               /\ HeaderValues(sent, OverrideHeaderName) = <<>>

\* A PATCH request with a caller config has been sent as POST.
MethodOverrideWitness ==
  \E i \in Issued :
    /\ requests[i].originalOptions.method = "PATCH"
    /\ requests[i].originalOptions.config # Undefined
    /\ requests[i].sent.method = "POST"

\* C3: every request that is issued, whatever its method and whether or not
\* the caller supplied a config, carries exactly one X-CSRF-Token header and
\* its value is the session's token at the moment of the send.
CsrfHeaderAttached ==
  [][Len(requests') > Len(requests) =>
       HeaderValues(requests'[Len(requests')].sent, CsrfHeaderName) =
         <<[header |-> CsrfHeaderName, value |-> csrfToken]>>]_vars

\* A DELETE request with a caller config was sent while the session held a
\* rotated token, and carries the caller's header too.
CsrfHeaderAttachedWitness ==
  \E i \in Issued :
    /\ requests[i].originalOptions.config # Undefined
    /\ requests[i].originalOptions.method = "DELETE"
    /\ requests[i].promise = Pending
    /\ csrfToken \in FreshTokens
    /\ HeaderValues(requests[i].sent, "X-Caller") # <<>>
    /\ HeaderValues(requests[i].sent, CsrfHeaderName) # <<>>

\* C10 (as claimed): the background option that is sent is true when the
\* caller gave none and the caller's value otherwise, an explicit false
\* included.
BackgroundDefault ==
  \A i \in Issued :
    requests[i].sent.background =
      IF requests[i].originalOptions.background = Undefined THEN "true"
      ELSE requests[i].originalOptions.background

\* The response whose handling was the last one before call j was made.
PrecedingResponse(j) == requests[completed[requests[j].issuedAfter]].xhr

NonEmptyHeader(xhr) == xhr.csrfHeader \notin {JSNull, ""}

\* C2 (as claimed): when the last response handled carried a non-empty
\* X-CSRF-Token header, whatever its status, the session holds that value and
\* the next request issued carries it.
CsrfRotationAnyStatus ==
  /\ completed # <<>> =>
       LET xhr == requests[completed[Len(completed)]].xhr
       IN  NonEmptyHeader(xhr) => csrfToken = xhr.csrfHeader
  /\ \A j \in Issued :
       requests[j].issuedAfter > 0 /\ NonEmptyHeader(PrecedingResponse(j)) =>
         HeaderValues(requests[j].sent, CsrfHeaderName) =
           <<[header |-> CsrfHeaderName,
              value |-> PrecedingResponse(j).csrfHeader]>>

\* C2 (amended): when the last response handled had a status in [200,299]
\* and carried a non-empty X-CSRF-Token header, the session holds that value
\* once the promise has settled, also when it settled by rejecting on an
\* unparseable body, and the next request issued carries it.
CsrfRotation ==
  /\ completed # <<>> =>
       LET xhr == requests[completed[Len(completed)]].xhr
       IN  xhr.status \in 200..299 /\ NonEmptyHeader(xhr) =>
             csrfToken = xhr.csrfHeader
  /\ \A j \in Issued :
       /\ requests[j].issuedAfter > 0
       /\ PrecedingResponse(j).status \in 200..299
       /\ NonEmptyHeader(PrecedingResponse(j))
       => HeaderValues(requests[j].sent, CsrfHeaderName) =
            <<[header |-> CsrfHeaderName,
               value |-> PrecedingResponse(j).csrfHeader]>>

\* A 200 response with an unparseable body and a fresh token was rejected,
\* and the request issued next carries the fresh token.
CsrfRotationWitness ==
  \E j \in Issued :
    /\ requests[j].issuedAfter > 0
    /\ PrecedingResponse(j).status = 200
    /\ PrecedingResponse(j).responseText = BodyHtml
    /\ PrecedingResponse(j).csrfHeader = "fresh2"
    /\ requests[completed[requests[j].issuedAfter]].promise.state = "rejected"
    /\ requests[j].sent.headers[1].value = "fresh2"

\* C4 (as claimed): a response with a status outside [200,299] rejects the
\* promise with a RequestError carrying that status, the raw body and the
\* options as the caller passed them, the original method included.
FailureCarriesOriginal ==
  \A i \in Answered :
    requests[i].xhr.status \notin 200..299 =>
      /\ requests[i].promise.state = "rejected"
      /\ requests[i].promise.reason.name = "RequestError"
      /\ requests[i].promise.reason.status = requests[i].xhr.status
      /\ requests[i].promise.reason.responseText = requests[i].xhr.responseText
      /\ requests[i].promise.reason.options.method =
           requests[i].originalOptions.method

\* The text options.extract hands to JSON.parse for an answered call.
ParsedText(i) == ResponseText(requests[i].originalOptions.extract, requests[i].xhr)

\* C5 (as claimed): a response with a status in [200,299] whose body does not
\* parse as JSON, an empty body included, rejects with a RequestError of
\* status 500.
UnparseableBodyRejects ==
  \A i \in Answered :
    /\ requests[i].xhr.status \in 200..299
    /\ ~JSONparse(requests[i].xhr.responseText).ok
    => /\ requests[i].promise.state = "rejected"
       /\ requests[i].promise.reason.name = "RequestError"
       /\ requests[i].promise.reason.status = 500

\* C5 (amended): a response with a status in [200,299] rejects with a
\* RequestError of status 500 when the text handed to JSON.parse does not
\* parse; that text is the body, null for an empty body, or the result of
\* the caller's extract.  An empty body without a caller extract resolves
\* with null.
UnparseableRejects ==
  \A i \in Answered :
    requests[i].xhr.status \in 200..299 =>
      /\ ~JSONparse(ParsedText(i)).ok =>
           /\ requests[i].promise.state = "rejected"
           /\ requests[i].promise.reason.name = "RequestError"
           /\ requests[i].promise.reason.status = 500
           /\ requests[i].promise.reason.responseText = ParsedText(i)
      /\ (requests[i].originalOptions.extract = Undefined
            /\ requests[i].xhr.responseText = "")
           => requests[i].promise = Resolved(NullValue)

\* A 204 response with an empty body, passed through a caller extract that
\* returns it unchanged, was rejected with status 500.
UnparseableRejectsWitness ==
  \E i \in Answered :
    /\ requests[i].xhr.status = 204
    /\ requests[i].xhr.responseText = ""
    /\ requests[i].originalOptions.extract = "identity"
    /\ requests[i].promise.state = "rejected"
    /\ requests[i].promise.reason.status = 500

\* C6 (as claimed): the promise resolves exactly when the status is in
\* [200,299] and the body parses as JSON, and then with the parsed body.
ResolvesIffBodyParses ==
  \A i \in Answered :
    /\ requests[i].promise.state = "resolved" <=>
         /\ requests[i].xhr.status \in 200..299
         /\ JSONparse(requests[i].xhr.responseText).ok
    /\ requests[i].promise.state = "resolved" =>
         requests[i].promise.value = JSONparse(requests[i].xhr.responseText).value

\* C6 (amended): the promise resolves exactly when the status is in [200,299]
\* and the text handed to JSON.parse parses (the body, null for an empty
\* body, or the result of the caller's extract), and then with the parsed
\* value.
ResolvesIffParses ==
  \A i \in Answered :
    /\ requests[i].promise.state = "resolved" <=>
         /\ requests[i].xhr.status \in 200..299
         /\ JSONparse(ParsedText(i)).ok
    /\ requests[i].promise.state = "resolved" =>
         requests[i].promise.value = JSONparse(ParsedText(i)).value

\* A 204 response with an empty body resolved with null, and no error was
\* retained.
ResolvesIffParsesWitness ==
  \E i \in Answered :
    /\ requests[i].xhr.status = 204
    /\ requests[i].xhr.responseText = ""
    /\ requests[i].originalOptions.extract = Undefined
    /\ requests[i].promise = Resolved(NullValue)
    /\ requestError = NoError

\* The message the claim gives for a status.
ClaimedMessage(status) ==
  CASE status \in {401, 403} -> PermissionDenied
    [] status \in {404, 410} -> NotFound
    [] status = 429 -> RateLimited
    [] OTHER -> Generic

\* C7 (as claimed): every failure is classified by its status alone, 422 to
\* the list of the response's field-level messages and every other status to
\* its fixed message, and the errorHandler sees the error with the
\* classification attached.
ClassificationTotal ==
  \A i \in Answered :
    requests[i].promise.state = "rejected" =>
      /\ requests[i].handlerCalls = 1
      /\ requests[i].handlerArg.name = "RequestError"
      /\ requests[i].handlerArg.alert.type = "error"
      /\ LET error == requests[i].handlerArg
             children == error.alert.children
         IN  IF error.status = 422
               THEN SelectSeq(children, LAMBDA c : c # "br") =
                      error.response.errors
               ELSE children = <<ClaimedMessage(error.status)>>

\* C8 (as claimed): for every failed request the errorHandler is called once
\* with the classified error and the promise rejects with that same error;
\* no failure resolves.
NeverRecovers ==
  \A i \in Answered :
    ~(requests[i].xhr.status \in 200..299 /\ JSONparse(ParsedText(i)).ok) =>
      /\ requests[i].promise.state = "rejected"
      /\ requests[i].handlerCalls = 1
      /\ requests[i].handlerArg = requests[i].promise.reason
      /\ requests[i].promise.reason.name = "RequestError"
      /\ requests[i].promise.reason.alert.type = "error"

\* The failed calls in the order their responses were handled.
CompletedFailures ==
  SelectSeq(completed, LAMBDA i : requests[i].promise.state = "rejected")

Suppliers(n) ==
  SelectSeq(SubSeq(completed, 1, n),
            LAMBDA i : NonEmptyHeader(requests[i].xhr))

\* The responses among the first n handled that supplied a token and had a
\* status in [200,299].
RotatingSuppliers(n) ==
  SelectSeq(SubSeq(completed, 1, n),
            LAMBDA i : /\ NonEmptyHeader(requests[i].xhr)
                       /\ requests[i].xhr.status \in 200..299)

\* token is the header value of the last of the suppliers, or the boot-time
\* token when there is none.
IsLastWritten(token, suppliers) ==
  IF suppliers = <<>> THEN token \in BootTokens
  ELSE token = requests[suppliers[Len(suppliers)]].xhr.csrfHeader

\* C14 (as claimed): the session token is the header value of the response
\* handled last among those that supplied an X-CSRF-Token header, whatever
\* their status (the boot-time token when none did), and every request
\* carries the token that was current in this sense when it was sent.
CsrfLastWriterAnyStatus ==
  /\ IsLastWritten(csrfToken, Suppliers(Len(completed)))
  /\ \A j \in Issued :
       /\ Len(HeaderValues(requests[j].sent, CsrfHeaderName)) = 1
       /\ IsLastWritten(HeaderValues(requests[j].sent, CsrfHeaderName)[1].value,
                        Suppliers(requests[j].issuedAfter))

\* C14 (amended): the session token is the header value of the response
\* handled last among those that had a status in [200,299] and supplied a
\* non-empty X-CSRF-Token header (the boot-time token when none did); other
\* responses leave it unchanged, and every request carries the token that
\* was current when it was sent, not the one current when it completes.
CsrfLastWriter ==
  /\ IsLastWritten(csrfToken, RotatingSuppliers(Len(completed)))
  /\ \A j \in Issued :
       /\ Len(HeaderValues(requests[j].sent, CsrfHeaderName)) = 1
       /\ IsLastWritten(HeaderValues(requests[j].sent, CsrfHeaderName)[1].value,
                        RotatingSuppliers(requests[j].issuedAfter))

\* Two requests were in flight together and the response of the second was
\* handled first: the session holds the token of the first request's
\* response, handled last, while both requests carried the boot-time token.
CsrfLastWriterWitness ==
  /\ Len(completed) > 1
  /\ completed[1] > completed[2]
  /\ requests[completed[1]].issuedAfter = 0
  /\ requests[completed[2]].issuedAfter = 0
  /\ requests[completed[1]].xhr.status = 200
  /\ requests[completed[2]].xhr.status = 200
  /\ requests[completed[1]].xhr.csrfHeader = "fresh2"
  /\ requests[completed[2]].xhr.csrfHeader = "fresh1"
  /\ requests[completed[2]].xhr.responseText = BodyHtml
  /\ csrfToken = "fresh1"

\* ============================================================ application
\* ------------------------------------------------------------------ bounds
\* Number of DiscussionPage components initialised in one behaviour.
MaxPages == 2
\* Highest post number the view reports to positionChanged.
MaxPost == 2

\* ------------------------------------------------------------------ inputs
\* The id of the discussion the route names, and of another discussion.
DiscussionId == "1"
OtherDiscussionId == "2"

\* A record of a document's included section.  relationship is the data of
\* its discussion relationship: the id of the discussion it points to,
\* "null", "array" for a to-many relationship, or "none" when the record has
\* no discussion relationship.
Included(type, id, number, relationship) ==
  [type |-> type, id |-> id, number |-> number, relationship |-> relationship]

FewIncluded ==
  {<<>>,
   <<Included("posts", 12, 2, DiscussionId),
     Included("posts", 11, 1, DiscussionId)>>,
   <<Included("posts", 11, 1, "null")>>}

\* The lastReadPostNumber a discussion document may carry.
LastReadValues == {Absent, 0, 1}

\* The API documents of the discussion.
Documents ==
  [type : {"document"}, lastReadPostNumber : LastReadValues,
   included : FewIncluded]

\* The payloads boot may be given.
BootPayloads ==
  [apiDocument : {NoDocument} \cup Documents, user : {JSNull, "user"},
   csrfToken : BootTokens]

\* m.route.param('near'), Absent when the route has none.
RouteNear == {Absent, MaxPost}

Range(seq) == {seq[i] : i \in DOMAIN seq}

\* -------------------------------------------------------- Application.boot
\* One statement of boot, lines 90-106.  The session's user is looked up in
\* the store (line 97), so it is only found once the store has the payload's
\* resources.
BootStep(step, payload) ==
  /\ bootLog' = Append(bootLog, step)
  /\ data' = IF step = "data" THEN payload ELSE data
  /\ csrfToken' = IF step = "session" THEN data.csrfToken ELSE csrfToken
  /\ sessionUser' =
       IF step = "session"
         THEN (IF "store" \in Range(bootLog) THEN data.user ELSE JSNull)
         ELSE sessionUser
  /\ UNCHANGED <<requestError, requests, completed, pages,
                 lastReadPostNumber, observed, saves, lastCall, stream>>

Boot ==
  /\ Len(bootLog) < Len(BootSequence)
  /\ \E payload \in BootPayloads :
       BootStep(BootSequence[Len(bootLog) + 1], payload)

\* Whether m.route has been mounted (line 104), so that pages can be routed.
Routing == "mount" \in Range(bootLog)

\* Returning the document without clearing this.data.apiDocument.
preloadedApiDocumentKept(d) ==
  [results |-> d.apiDocument, data |-> d]

\* preloadedApiDocument(), lines 126-136: results is what it returns, data
\* what it leaves in this.data.
preloadedApiDocument(d) ==
  IF d.apiDocument # NoDocument
    THEN [results |-> d.apiDocument,
          data |-> [d EXCEPT !.apiDocument = NoDocument]]
    ELSE [results |-> NoDocument, data |-> d]

\* ----------------------------------------------------------- DiscussionPage
\* A DiscussionPage right after construction, lines 32-42.
NewPage ==
  [discussion |-> "null", hasStream |-> FALSE, near |-> 0, url |-> Absent,
   timers |-> 0, finds |-> 0, find |-> 0, load |-> "none",
   document |-> NoDocument, includedPosts |-> <<>>, goToNumber |-> Absent,
   promise |-> "none", current |-> FALSE]

\* Filtering on the type and the presence of a to-one relationship only.
BelongsToAny(record, discussionId) ==
  /\ record.type = "posts"
  /\ record.relationship \notin {"none", "array"}

\* The filter of show, lines 203-209, on one included record.
BelongsTo(record, discussionId) ==
  /\ record.type = "posts"
  /\ record.relationship \notin {"none", "array"}
  /\ record.relationship = discussionId

\* Reading .id of a null relationship data on line 208 throws.
FilterThrows(included) ==
  \E i \in DOMAIN included :
    included[i].type = "posts" /\ included[i].relationship = "null"

\* app.store.getById('posts', record.id), line 210: the post the store built
\* from the record when the document was pushed.
getById(record) ==
  [id |-> record.id, number |-> record.number,
   discussion |-> record.relationship]

RECURSIVE Insert(_, _)
\* One step of the sort of line 211: post goes before the first post with a
\* greater number, after those with an equal one.
Insert(sorted, post) ==
  IF sorted = <<>> THEN <<post>>
  ELSE IF OrZero(post.number) - OrZero(Head(sorted).number) < 0
    THEN <<post>> \o sorted
    ELSE <<Head(sorted)>> \o Insert(Tail(sorted), post)

RECURSIVE SortByNumber(_)
\* .sort((a, b) => (a?.number() ?? 0) - (b?.number() ?? 0)), line 211.
SortByNumber(posts) ==
  IF posts = <<>> THEN <<>>
  ELSE Insert(SortByNumber(SubSeq(posts, 1, Len(posts) - 1)),
              posts[Len(posts)])

\* The number of posts of a page, line 212.
PageSize == 20

\* .slice(0, 20), line 212.
FirstPage(posts) ==
  SubSeq(posts, 1, IF Len(posts) < PageSize THEN Len(posts) ELSE PageSize)

\* includedPosts of show, lines 198-213.
IncludedPosts(document) ==
  LET filtered == SelectSeq(document.included,
                            LAMBDA record : BelongsTo(record, DiscussionId))
      posts == [i \in DOMAIN filtered |-> getById(filtered[i])]
  IN  FirstPage(SortByNumber(posts))

\* Setting this.discussion in show itself, before goToNumber has resolved.
showEager(page, document, near) ==
  IF FilterThrows(document.included)
    THEN [page EXCEPT !.load = "threw", !.document = document]
    ELSE [page EXCEPT
            !.load = "shown",
            !.document = document,
            !.hasStream = TRUE,
            !.includedPosts = IncludedPosts(document),
            !.goToNumber = near,
            !.discussion = "discussion",
            !.current = TRUE,
            !.promise = "pending"]

\* show(discussion), lines 186-227, up to the call of goToNumber: the page it
\* leaves.  this.discussion stays null until the promise of goToNumber
\* resolves.
show(page, document, near) ==
  IF FilterThrows(document.included)
    THEN [page EXCEPT !.load = "threw", !.document = document]
    ELSE LET includedPosts == IncludedPosts(document)
         IN  [page EXCEPT
                !.load = "shown",
                !.document = document,
                !.hasStream = TRUE,
                !.includedPosts = includedPosts,
                !.goToNumber =
                  IF near # Absent THEN near
                  ELSE IF includedPosts = <<>> THEN 0
                  ELSE OrZero(includedPosts[1].number),
                !.promise = "pending"]

\* The callback of goToNumber(...).then, lines 222-226.
shown(page) ==
  [page EXCEPT !.discussion = "discussion", !.current = TRUE,
               !.promise = "resolved"]

\* What view() renders, line 84.
view(page) ==
  IF page.discussion # "null" THEN "pageContent" ELSE "loadingItems"

\* Responses to the requests of the store and of discussion.save.
StoreResponses ==
  [status : {200, 404}, responseText : {BodyData}, csrfHeader : {JSNull}]

\* The options of store.find and of discussion.save.
FindOptions ==
  [method |-> "GET", background |-> Undefined, config |-> Undefined,
   errorHandler |-> Undefined, extract |-> Undefined]
SaveOptions ==
  [method |-> "PATCH", background |-> Undefined, config |-> Undefined,
   errorHandler |-> Undefined, extract |-> Undefined]

\* Merging an attribute of a pushed document into the stored resource: the
\* last write wins, and a document without the attribute leaves it alone.
Merge(current, incoming) == IF incoming = Absent THEN current ELSE incoming

\* load(), lines 156-171: the page it leaves.  preloaded is the result of
\* preloadedApiDocument(), find the request store.find would make.
load(page, preloaded, find) ==
  IF preloaded # NoDocument
    THEN [page EXCEPT !.timers = @ + 1, !.load = "timeout",
                      !.document = preloaded]
    ELSE [page EXCEPT !.finds = @ + 1, !.load = "find", !.find = find]

\* oninit, lines 46-62: a page is routed and calls load().  A preloaded
\* document has been pushed into the store by preloadedApiDocument().
oninit ==
  LET preloaded == preloadedApiDocument(data)
      page == load(NewPage, preloaded.results, Len(requests) + 1)
  IN  /\ Routing
      /\ data' = preloaded.data
      /\ pages' = Append(pages, page)
      /\ IF page.finds > 0
           THEN /\ request(FindOptions)
                /\ UNCHANGED <<lastReadPostNumber, observed>>
           ELSE /\ lastReadPostNumber' =
                     Merge(lastReadPostNumber,
                           preloaded.results.lastReadPostNumber)
                /\ observed' =
                     Merge(observed, preloaded.results.lastReadPostNumber)
                /\ UNCHANGED pipelineVars
      /\ lastCall' = NoCall
      /\ UNCHANGED <<bootLog, sessionUser, saves, stream>>

OnInit == Len(pages) < MaxPages /\ oninit

\* setTimeout(this.show.bind(this, preloadedDiscussion), 0), line 164.
TimerFires ==
  \E p \in DOMAIN pages : \E near \in RouteNear :
    /\ pages[p].load = "timeout"
    /\ pages' = [pages EXCEPT ![p] = show(pages[p], pages[p].document, near)]
    /\ lastCall' = NoCall
    /\ UNCHANGED <<pipelineVars, bootLog, data, sessionUser,
                   lastReadPostNumber, observed, saves, stream>>

\* The response of store.find arrives, line 168: when the request resolves
\* the store pushes the document and show runs; otherwise show never runs.
FindResponds ==
  \E p \in DOMAIN pages : \E xhr \in StoreResponses :
  \E document \in Documents : \E near \in RouteNear :
    LET id == pages[p].find
        resolves == ~Extract(requests[id].options, xhr, id, csrfToken).threw
    IN  /\ pages[p].load = "find"
        /\ respond(id, xhr)
        /\ IF resolves
             THEN /\ pages' = [pages EXCEPT ![p] = show(pages[p], document, near)]
                  /\ lastReadPostNumber' =
                       Merge(lastReadPostNumber, document.lastReadPostNumber)
                  /\ observed' = Merge(observed, document.lastReadPostNumber)
             ELSE /\ pages' = [pages EXCEPT ![p].load = "failed"]
                  /\ UNCHANGED <<lastReadPostNumber, observed>>
        /\ lastCall' = NoCall
        /\ UNCHANGED <<bootLog, data, sessionUser, saves, stream>>

\* The promise of the stream's initial goToNumber settles, lines 222-226.
GoToSettles ==
  \E p \in DOMAIN pages : \E resolves \in BOOLEAN :
    /\ pages[p].promise = "pending"
    /\ pages' = [pages EXCEPT ![p] =
         IF resolves THEN shown(pages[p])
         ELSE [pages[p] EXCEPT !.promise = "rejected"]]
    /\ lastCall' = NoCall
    /\ UNCHANGED <<pipelineVars, bootLog, data, sessionUser,
                   lastReadPostNumber, observed, saves, stream>>

\* Marking as read without looking at the session's user.
MarksReadAnonymous(page, endNumber, user, lastRead) ==
  /\ page.discussion # "null"
  /\ endNumber > OrZero(lastRead)

\* Marking as read on the greater-or-equal comparison.
MarksReadInclusive(page, endNumber, user, lastRead) ==
  /\ page.discussion # "null"
  /\ user # JSNull
  /\ endNumber >= OrZero(lastRead)

\* Whether positionChanged saves the read state, lines 270 and 281.
MarksRead(page, endNumber, user, lastRead) ==
  /\ page.discussion # "null"
  /\ user # JSNull
  /\ endNumber > OrZero(lastRead)

\* positionChanged, lines 267-278: the page it leaves.
positionChanged(page, startNumber) ==
  IF page.discussion = "null" THEN page
  ELSE [page EXCEPT !.near = startNumber, !.url = startNumber]

\* discussion.save({lastReadPostNumber: endNumber}): the attribute is set on
\* the Discussion at once and a PATCH request goes through the pipeline.
save(endNumber) ==
  /\ request(SaveOptions)
  /\ saves' = Append(saves, [lastReadPostNumber |-> endNumber,
                             request |-> Len(requests) + 1])
  /\ lastReadPostNumber' = endNumber
  /\ UNCHANGED observed

\* The view calls onPositionChange(startNumber, endNumber) on a page.
PositionChanged ==
  \E p \in DOMAIN pages : \E startNumber \in 1..MaxPost :
  \E endNumber \in startNumber..MaxPost :
    LET marks == MarksRead(pages[p], endNumber, sessionUser,
                           lastReadPostNumber)
        again == /\ lastCall.page = p
                 /\ lastCall.startNumber = startNumber
                 /\ lastCall.endNumber = endNumber
    IN  /\ marks => Len(requests) < MaxRequests
        /\ pages' = [pages EXCEPT ![p] = positionChanged(pages[p], startNumber)]
        /\ IF marks THEN save(endNumber)
           ELSE UNCHANGED <<pipelineVars, saves, lastReadPostNumber, observed>>
        /\ lastCall' =
             IF again THEN [lastCall EXCEPT !.times = 2]
             ELSE [page |-> p, startNumber |-> startNumber,
                   endNumber |-> endNumber, times |-> 1]
        /\ UNCHANGED <<bootLog, data, sessionUser, stream>>

\* The response of a save arrives: when the request resolves the store
\* pushes the returned discussion, which carries the value that was saved.
SaveResponds ==
  \E k \in DOMAIN saves : \E xhr \in StoreResponses :
    LET id == saves[k].request
        resolves == ~Extract(requests[id].options, xhr, id, csrfToken).threw
    IN  /\ respond(id, xhr)
        /\ IF resolves
             THEN /\ lastReadPostNumber' =
                       Merge(lastReadPostNumber, saves[k].lastReadPostNumber)
                  /\ observed' = Merge(observed, saves[k].lastReadPostNumber)
             ELSE UNCHANGED <<lastReadPostNumber, observed>>
        /\ lastCall' = NoCall
        /\ UNCHANGED <<bootLog, data, sessionUser, pages, saves, stream>>

\* ---------------------------------------------------------- specifications
\* The application from before boot: boot runs, then pages are routed.
InitApp ==
  /\ csrfToken = Undefined
  /\ requestError = NoError
  /\ requests = <<>>
  /\ completed = <<>>
  /\ bootLog = <<>>
  /\ data = NoData
  /\ sessionUser = JSNull
  /\ pages = <<>>
  /\ lastReadPostNumber = Absent
  /\ observed = Absent
  /\ saves = <<>>
  /\ lastCall = NoCall
  /\ stream = NoStream

NextApp == Boot \/ OnInit \/ TimerFires \/ FindResponds

SpecApp == InitApp /\ [][NextApp]_vars

\* One page of a booted application, with the view reporting positions.
InitPage ==
  /\ \E payload \in BootPayloads :
       /\ data = payload
       /\ csrfToken = payload.csrfToken
       /\ sessionUser = payload.user
  /\ requestError = NoError
  /\ requests = <<>>
  /\ completed = <<>>
  /\ bootLog = BootSequence
  /\ pages = <<>>
  /\ lastReadPostNumber = Absent
  /\ observed = Absent
  /\ saves = <<>>
  /\ lastCall = NoCall
  /\ stream = NoStream

OnInitFirst == pages = <<>> /\ oninit

NextPage ==
  \/ OnInitFirst
  \/ TimerFires
  \/ FindResponds
  \/ GoToSettles
  \/ PositionChanged
  \/ SaveResponds

SpecPage == InitPage /\ [][NextPage]_vars

\* ------------------------------------------------- claims on the pages
\* A step is a call of positionChanged that is the first or the second of
\* its kind.
PositionCall == lastCall' # lastCall /\ lastCall'.times > 0

\* A step issued a persistence request for lastReadPostNumber = endNumber.
Persists(endNumber) ==
  /\ Len(saves') = Len(saves) + 1
  /\ saves'[Len(saves')].lastReadPostNumber = endNumber
  /\ Len(requests') = Len(requests) + 1
  /\ saves'[Len(saves')].request = Len(requests')
  /\ requests'[Len(requests')].originalOptions.method = "PATCH"

\* C11: positionChanged(startNumber, endNumber) issues a persistence request
\* with lastReadPostNumber = endNumber exactly when the page's discussion is
\* loaded, the session has a user and endNumber is strictly greater than the
\* discussion's lastReadPostNumber, a missing one counting as 0; otherwise
\* it issues no request.
ReadMarkingGuard ==
  [][PositionCall =>
       IF /\ pages[lastCall'.page].discussion # "null"
          /\ sessionUser # JSNull
          /\ lastCall'.endNumber >
               (IF lastReadPostNumber = Absent THEN 0 ELSE lastReadPostNumber)
         THEN Persists(lastCall'.endNumber)
         ELSE saves' = saves /\ requests' = requests]_vars

\* The view reported an end that is past a stored lastReadPostNumber of 1 and
\* the save was issued.
ReadMarkingGuardWitness ==
  /\ lastCall.times = 1
  /\ Len(saves) = 1
  /\ saves[1].lastReadPostNumber = lastCall.endNumber
  /\ pages[1].document.lastReadPostNumber = 1
  /\ lastReadPostNumber = lastCall.endNumber
  /\ requests[saves[1].request].promise = Pending

\* C12 (as claimed): with positionChanged calls, save responses and pushed
\* documents in any order, the discussion's lastReadPostNumber never
\* decreases, and no persistence request carries a value below the one last
\* taken from the server.
ReadPositionMonotone ==
  [][/\ OrZero(lastReadPostNumber') >= OrZero(lastReadPostNumber)
     /\ Len(saves') > Len(saves) =>
          saves'[Len(saves')].lastReadPostNumber >= OrZero(observed)]_vars

\* C16: a positionChanged call that repeats the call before it, with nothing
\* in between, leaves the tracked position and the discussion's
\* lastReadPostNumber as they are and issues no request, also while the save
\* of the first call is in flight.
RepeatedCallIdempotent ==
  [][lastCall.times = 1 /\ lastCall'.times = 2 =>
       /\ pages'[lastCall.page].near = pages[lastCall.page].near
       /\ lastReadPostNumber' = lastReadPostNumber
       /\ saves' = saves
       /\ requests' = requests]_vars

\* The call was repeated while the save of the first call was in flight.
RepeatedCallIdempotentWitness ==
  /\ lastCall.times = 2
  /\ Len(saves) = 1
  /\ saves[1].lastReadPostNumber = lastCall.endNumber
  /\ requests[saves[1].request].promise = Pending
  /\ pages[lastCall.page].near = lastCall.startNumber

\* C18: a page exposes its discussion (this.discussion and the current
\* entries) only once the promise of the initial goToNumber has resolved;
\* until then it renders the loading items and positionChanged changes
\* nothing, and a page whose goToNumber rejected never exposes it.
ExposedAfterGoTo ==
  [][/\ \A p \in DOMAIN pages' :
          /\ pages'[p].discussion # "null" \/ pages'[p].current =>
               pages'[p].promise = "resolved"
          /\ pages'[p].promise # "resolved" =>
               view(pages'[p]) = "loadingItems"
     /\ \A p \in DOMAIN pages :
          pages[p].promise = "rejected" => pages'[p] = pages[p]
     /\ PositionCall /\ pages[lastCall'.page].promise # "resolved" =>
          /\ pages' = pages
          /\ requests' = requests
          /\ saves' = saves
          /\ lastReadPostNumber' = lastReadPostNumber]_vars

\* The view reported a position while the initial goToNumber of the page was
\* still pending, and nothing was tracked.
ExposedAfterGoToWitness ==
  /\ lastCall.times > 0
  /\ pages[lastCall.page].promise = "pending"
  /\ pages[lastCall.page].hasStream
  /\ pages[lastCall.page].near = 0
  /\ pages[lastCall.page].url = Absent
  /\ sessionUser # JSNull
  /\ saves = <<>>

\* C17 (as claimed): boot loads the session, then the store, then starts
\* routing; routing starts only once both exist and every request of a page
\* carries a session token.
BootSessionFirst ==
  /\ "store" \in Range(bootLog) => "session" \in Range(bootLog)
  /\ Routing => {"session", "store"} \subseteq Range(bootLog)
  /\ pages # <<>> => Routing
  /\ \A i \in Issued :
       \E t \in BootTokens :
         HeaderValues(requests[i].sent, CsrfHeaderName) =
           <<[header |-> CsrfHeaderName, value |-> t]>>

\* C17 (amended): boot loads the store, then the session, then starts
\* routing; routing starts only once both exist and every request of a page
\* carries a session token.
BootStoreFirst ==
  /\ "session" \in Range(bootLog) => "store" \in Range(bootLog)
  /\ Routing =>
       /\ {"session", "store"} \subseteq Range(bootLog)
       /\ csrfToken \in BootTokens
  /\ pages # <<>> => Routing
  /\ \A i \in Issued :
       \E t \in BootTokens :
         HeaderValues(requests[i].sent, CsrfHeaderName) =
           <<[header |-> CsrfHeaderName, value |-> t]>>

\* Boot has returned and a routed page has issued its store.find.
BootStoreFirstWitness ==
  /\ bootLog = BootSequence
  /\ Len(pages) > 0
  /\ pages[1].finds = 1
  /\ requests[pages[1].find].sent.method = "GET"
  /\ sessionUser = "user"

\* C19: the preloaded document is consumed at most once: the first call of
\* preloadedApiDocument pushes it into the store and returns it, later calls
\* return null, and every load either defers a show of the preloaded
\* discussion or issues one store.find, never both and never neither.
PreloadedOnce ==
  /\ \A p \in DOMAIN pages :
       /\ pages[p].timers + pages[p].finds = 1
       /\ p > 1 => pages[p].timers = 0
       /\ pages[p].timers = 1 => pages[p].document # NoDocument
       /\ pages[p].load = "timeout" =>
            ~pages[p].hasStream /\ pages[p].promise = "none"
       /\ pages[p].finds = 1 =>
            /\ pages[p].find \in Issued
            /\ requests[pages[p].find].sent.method = "GET"
            /\ \A q \in DOMAIN pages : q # p => pages[q].find # pages[p].find
  /\ Len(requests) = Cardinality({p \in DOMAIN pages : pages[p].finds = 1})
  /\ pages # <<>> => data.apiDocument = NoDocument
  /\ (pages # <<>> /\ pages[1].timers = 1 /\ completed = <<>>) =>
       lastReadPostNumber = pages[1].document.lastReadPostNumber

\* The first page took the preloaded document and has shown it after its
\* timer; the second page issued a store.find.
PreloadedOnceWitness ==
  /\ Len(pages) = 2
  /\ pages[1].timers = 1
  /\ pages[1].load = "shown"
  /\ pages[2].finds = 1
  /\ pages[2].timers = 0
  /\ Len(requests) = 1

\* ------------------------------------------------- show on any document
\* Number of posts of the discussion a document includes.
MaxIncluded == 21

\* The k-th of n included posts of the discussion, with the post numbers
\* 1..n in ascending, descending or zigzag order.
OwnPost(k, n, order) ==
  LET number == CASE order = "ascending" -> k
                  [] order = "descending" -> n + 1 - k
                  [] OTHER -> IF k % 2 = 1 THEN (k + 1) \div 2
                              ELSE n + 1 - (k \div 2)
  IN  Included("posts", 10 + number, number, DiscussionId)

\* Records that do not belong to the discussion's posts: a post of another
\* discussion, a post without a discussion relationship, a post with a
\* to-many one, a user, and a post whose relationship data is null.
OtherRecords ==
  <<Included("posts", 90, 0, OtherDiscussionId),
    Included("posts", 91, 0, "none"),
    Included("posts", 92, 0, "array"),
    Included("users", 93, 0, DiscussionId),
    Included("posts", 94, 0, "null")>>

ManyIncluded ==
  {SelectSeq(OtherRecords, LAMBDA r : r \in others)
     \o [k \in 1..n |-> OwnPost(k, n, order)] :
       others \in SUBSET Range(OtherRecords), n \in 0..MaxIncluded,
       order \in {"ascending", "descending", "zigzag"}}

\* show(discussion) is called on a new page with any document.
ShowDocument ==
  \E included \in ManyIncluded : \E near \in RouteNear :
    /\ pages = <<>>
    /\ pages' = <<show(NewPage,
                       [type |-> "document", lastReadPostNumber |-> Absent,
                        included |-> included], near)>>
    /\ lastCall' = NoCall
    /\ UNCHANGED <<pipelineVars, bootLog, data, sessionUser,
                   lastReadPostNumber, observed, saves, stream>>

NextShow == ShowDocument \/ GoToSettles

SpecShow == InitPage /\ [][NextShow]_vars

\* C15: the posts show hands to the PostStreamState are posts of the store
\* built from included records of type 'posts' whose to-one discussion
\* relationship has the id of the discussion shown, they come in ascending
\* order of post number, and there are at most 20 of them.
InitialPostsBelong ==
  \A p \in DOMAIN pages :
    pages[p].hasStream =>
      LET posts == pages[p].includedPosts
          included == pages[p].document.included
      IN  /\ Len(posts) <= 20
          /\ \A i \in DOMAIN posts : \A j \in DOMAIN posts :
               i < j => posts[i].number < posts[j].number
          /\ \A i \in DOMAIN posts :
               /\ posts[i].discussion = DiscussionId
               /\ \E k \in DOMAIN included :
                    /\ included[k].type = "posts"
                    /\ included[k].relationship = DiscussionId
                    /\ included[k].id = posts[i].id
                    /\ included[k].number = posts[i].number

\* A document with 21 posts of the discussion in descending order, a post of
\* another discussion and a post without relationship was shown: the stream
\* got the 20 posts with the lowest numbers.
InitialPostsBelongWitness ==
  \E p \in DOMAIN pages :
    /\ pages[p].hasStream
    /\ Len(pages[p].includedPosts) = 20
    /\ Len(pages[p].document.included) = 23
    /\ pages[p].document.included[1].relationship = OtherDiscussionId
    /\ pages[p].document.included[2].relationship = "none"
    /\ pages[p].document.included[3].number = 21
    /\ pages[p].includedPosts[1].number = 1
    /\ pages[p].includedPosts[20].number = 20

\* ------------------------------------------------------- PostStreamState
\* Number of goToNumber calls on one stream.
MaxCalls == 3
\* Highest post number of the discussion.
MaxTarget == 4

\* The numbers goToNumber may be called with; 0 stands for the first known
\* post.
Targets == 0..MaxTarget

Min(numbers) == CHOOSE n \in numbers : \A other \in numbers : n <= other

\* new PostStreamState(discussion, includedPosts): an idle stream whose loaded
\* window holds the numbers of the posts it was given.
PostStreamState(includedPosts) ==
  [state |-> "Idle", targetNumber |-> Absent,
   loadedWindow |-> {includedPosts[i].number : i \in DOMAIN includedPosts},
   visibleRange |-> <<0, 0>>, calls |-> <<>>, settled |-> 0]

\* The target of goToNumber(number): the number, or the first known post
\* when it is 0.
Target(s, number) ==
  IF number # 0 THEN number
  ELSE IF s.loadedWindow = {} THEN 0 ELSE Min(s.loadedWindow)

\* The numbers of the page of posts surrounding a number.
PageNear(number) == {n \in 1..MaxTarget : number - 1 <= n /\ n <= number + 1}

\* The stream showing its target.
Arrive(s, number) ==
  [s EXCEPT !.state = "Ready", !.visibleRange = <<number, number>>]

\* goToNumber(number): resolves at once when the target lies in the loaded
\* window, else asks the store for the page near it, tagged with the target.
goToNumber(s, number) ==
  LET target == Target(s, number)
      aimed == [s EXCEPT !.targetNumber = target]
  IN  IF target \in s.loadedWindow
        THEN [Arrive(aimed, target) EXCEPT
                !.calls = Append(s.calls,
                                 [target |-> target, status |-> "resolved",
                                  settledAt |-> 0])]
        ELSE [aimed EXCEPT
                !.state = "Loading",
                !.calls = Append(s.calls,
                                 [target |-> target, status |-> "pending",
                                  settledAt |-> 0])]

\* Taking every response for the one of the current target.
IsCurrentAlways(s, call) == TRUE

\* A response serves the current target when its tag is the stream's target.
IsCurrent(s, call) == call.target = s.targetNumber

\* The response of the store to the fetch of call i: committed when the call
\* still serves the current target, discarded otherwise; a rejection changes
\* nothing but the call.
fetched(s, i, ok) ==
  LET settle(status) ==
        [s EXCEPT !.settled = s.settled + 1,
                  !.calls[i].status = status,
                  !.calls[i].settledAt = s.settled + 1]
  IN  IF ~ok THEN settle("failed")
      ELSE IF IsCurrent(s, s.calls[i])
        THEN [Arrive(settle("committed"), s.calls[i].target) EXCEPT
                !.loadedWindow = s.loadedWindow \cup PageNear(s.calls[i].target)]
        ELSE settle("discarded")

\* show creates the stream of the page and calls goToNumber on it, lines
\* 219-220; the promise of a call that resolves at once runs the callback of
\* lines 222-226.
ShowStream ==
  \E document \in Documents : \E near \in (Targets \ {0}) \cup {Absent} :
    /\ pages = <<>>
    /\ LET page == show(NewPage, document, near)
           created == goToNumber(PostStreamState(page.includedPosts),
                                 page.goToNumber)
       IN  IF ~page.hasStream
             THEN pages' = <<page>> /\ stream' = stream
             ELSE /\ stream' = created
                  /\ pages' = IF created.state = "Ready" THEN <<shown(page)>>
                              ELSE <<page>>
    /\ lastCall' = NoCall
    /\ UNCHANGED <<pipelineVars, bootLog, data, sessionUser,
                   lastReadPostNumber, observed, saves>>

\* A later goToNumber on the stream of the page.
GoToNumber ==
  \E number \in Targets :
    /\ stream # NoStream
    /\ Len(stream.calls) < MaxCalls
    /\ stream' = goToNumber(stream, number)
    /\ UNCHANGED <<pipelineVars, bootLog, data, sessionUser, pages,
                   lastReadPostNumber, observed, saves, lastCall>>

\* The store answers the fetch of a call; the promise of the call of show
\* resolves when its fetch is committed.
Fetched ==
  \E i \in 1..MaxCalls : \E ok \in BOOLEAN :
    /\ stream # NoStream
    /\ i \in DOMAIN stream.calls
    /\ stream.calls[i].status = "pending"
    /\ stream' = fetched(stream, i, ok)
    /\ pages' = IF i = 1 /\ stream'.calls[1].status = "committed"
                  THEN <<shown(pages[1])>>
                ELSE IF i = 1 /\ ~ok
                  THEN <<[pages[1] EXCEPT !.promise = "rejected"]>>
                ELSE pages
    /\ lastCall' = NoCall
    /\ UNCHANGED <<pipelineVars, bootLog, data, sessionUser,
                   lastReadPostNumber, observed, saves>>

InitStream == InitPage /\ data.apiDocument = NoDocument

NextStream == ShowStream \/ GoToNumber \/ Fetched

SpecStream == InitStream /\ [][NextStream]_vars

\* The response of call i arrives in this step.
Arrives(i) ==
  /\ stream # NoStream
  /\ i \in DOMAIN stream.calls
  /\ stream.calls[i].status = "pending"
  /\ stream'.calls[i].status # "pending"

\* C13: a response that arrives for a target that is no longer the stream's
\* target leaves targetNumber and visibleRange as they are, and whenever the
\* stream is Ready it shows the target of the latest goToNumber call.
SupersededNavigation ==
  [][/\ \A i \in 1..MaxCalls :
          (Arrives(i) /\ stream.calls[i].target # stream.targetNumber) =>
            /\ stream'.visibleRange = stream.visibleRange
            /\ stream'.targetNumber = stream.targetNumber
            /\ stream'.state = stream.state
     /\ (stream' # NoStream /\ stream'.state = "Ready") =>
          LET last == stream'.calls[Len(stream'.calls)].target
          IN  /\ stream'.targetNumber = last
              /\ stream'.visibleRange = <<last, last>>]_vars

\* Two calls with different targets were in flight together, the response of
\* the later call arrived first and was committed, the response of the
\* earlier one arrived after it, and the stream shows the later target.
SupersededNavigationWitness ==
  /\ stream # NoStream
  /\ \E i \in DOMAIN stream.calls : \E j \in DOMAIN stream.calls :
       /\ i < j
       /\ j = Len(stream.calls)
       /\ stream.calls[i].target # stream.calls[j].target
       /\ stream.calls[j].status = "committed"
       /\ stream.calls[i].status = "discarded"
       /\ stream.calls[i].settledAt > stream.calls[j].settledAt
       /\ stream.visibleRange = <<stream.calls[j].target, stream.calls[j].target>>
       /\ stream.targetNumber = stream.calls[j].target

====
